---------------------------- MODULE Spec2Model ----------------------------
(***************************************************************************)
(* Model of the incident normalisation pipeline of fredscanner             *)
(* (src/process_incidents.py): the two field parsers, the temporal         *)
(* deriver, the deduplicating enrichment run and the quality reporter;     *)
(* and of the collector (src/fredscanner.py) that appends to its input.    *)
(*                                                                         *)
(* Text is a sequence of one-character strings, so that the regular        *)
(* expressions, strip() and split() of the source are computed character   *)
(* by character.  The empty text is << >>.                                 *)
(***************************************************************************)
EXTENDS Integers, Sequences, FiniteSets, TLC

VARIABLES
    fn_pc,          \* position of a direct call of one of the pure functions
    units_str,      \* argument of parse_units_field
    units_data,     \* its return value
    location_str,   \* argument of parse_location
    location_data,  \* its return value
    datetime_obj,   \* argument of get_temporal_fields
    temporal_data,  \* its return value
    pc,                  \* position of the run of the __main__ block
    input_file,          \* incidents.csv: whether it exists, and its rows
    output_file,         \* incidents_enhanced.csv: existence, header, rows
    incidents,           \* process_incidents: the rows read
    unique_incidents,    \* process_incidents: the rows that survive dedup
    duplicates_removed,  \* process_incidents: the rows dropped by dedup
    enhanced_incidents,  \* process_incidents: the enriched records
    stats,               \* the return value of process_incidents
    report,              \* outcome of generate_quality_report
    output_at_start,     \* history: output_file when the run started
    last_complete,       \* history: output_file after the last completed write
    earlier_run,         \* history: the run before later_run
    later_run,           \* history: the latest run of process_incidents
    col_pc,          \* position of the run of the collector (fredscanner.py)
    incidents_csv,   \* incidents.csv as the collector sees it
    max_datetime,    \* collector: the threshold read from the table
    incident_texts,  \* collector: the texts of the page
    text_index,      \* collector: position of the loop over incident_texts
    csv_at_start,    \* history: incidents_csv when the collector run started
    appended         \* history: the rows the collector run has written

fn_vars == <<fn_pc, units_str, units_data, location_str, location_data,
             datetime_obj, temporal_data>>

run_vars == <<pc, input_file, output_file, incidents, unique_incidents,
              duplicates_removed, enhanced_incidents, stats, report,
              output_at_start, last_complete>>

hist_vars == <<earlier_run, later_run>>

col_vars == <<col_pc, incidents_csv, max_datetime, incident_texts, text_index,
              csv_at_start, appended>>

vars == <<fn_vars, run_vars, hist_vars, col_vars>>

-----------------------------------------------------------------------------
(* Bounds of the model *)

\* longest Units text, counted in pieces, handed to parse_units_field
MaxUnitsPieces == 5

\* longest Location text, counted in pieces, handed to parse_location
MaxLocationPieces == 4

\* most rows of the input table
MaxRows == 3

\* texts on one page of the source
MaxPage == 3

\* rows of incidents.csv
MaxCsvRows == 5

-----------------------------------------------------------------------------
(* Text primitives: what Python's str and re do on the characters used *)

\* str.isspace() / the class \s of re, over the characters of the model
IsSpace(c) == c \in {" ", "\n", "\t"}

\* the class . of re (no DOTALL flag): anything but a line feed
IsDot(c) == c /= "\n"

\* index of the first character at or after i that is not whitespace
\* (Len(s) + 1 when there is none): where a greedy \s* ends
SkipSpace(s, i) ==
    IF \E j \in i..Len(s) : ~IsSpace(s[j])
    THEN CHOOSE j \in i..Len(s) :
            ~IsSpace(s[j]) /\ \A k \in i..(j - 1) : IsSpace(s[k])
    ELSE Len(s) + 1

\* index of the first whitespace character at or after i: where \S+ ends
SkipNonSpace(s, i) ==
    IF \E j \in i..Len(s) : IsSpace(s[j])
    THEN CHOOSE j \in i..Len(s) :
            IsSpace(s[j]) /\ \A k \in i..(j - 1) : ~IsSpace(s[k])
    ELSE Len(s) + 1

\* index of the first line feed at or after i: where a greedy .+ ends
SkipDot(s, i) ==
    IF \E j \in i..Len(s) : ~IsDot(s[j])
    THEN CHOOSE j \in i..Len(s) :
            ~IsDot(s[j]) /\ \A k \in i..(j - 1) : IsDot(s[k])
    ELSE Len(s) + 1

\* the literal lit stands in s at index i
HasLit(s, i, lit) ==
    /\ i + Len(lit) - 1 <= Len(s)
    /\ SubSeq(s, i, i + Len(lit) - 1) = lit

\* str.strip()
Strip(s) ==
    LET a == SkipSpace(s, 1)
    IN  IF a > Len(s) THEN << >>
        ELSE LET b == CHOOSE j \in a..Len(s) :
                        ~IsSpace(s[j]) /\ \A k \in (j + 1)..Len(s) : IsSpace(s[k])
             IN  SubSeq(s, a, b)

\* index of the first occurrence of character c at or after i, Len(s)+1 if none
FindChar(s, c, i) ==
    IF \E j \in i..Len(s) : s[j] = c
    THEN CHOOSE j \in i..Len(s) : s[j] = c /\ \A k \in i..(j - 1) : s[k] /= c
    ELSE Len(s) + 1

\* str.split(c): the pieces between the occurrences of c, empty pieces kept
RECURSIVE SplitFrom(_, _, _)
SplitFrom(s, c, i) ==
    LET j == FindChar(s, c, i)
    IN  IF j > Len(s) THEN << SubSeq(s, i, Len(s)) >>
        ELSE << SubSeq(s, i, j - 1) >> \o SplitFrom(s, c, j + 1)

Split(s, c) == SplitFrom(s, c, 1)

\* all concatenations of at most n pieces
RECURSIVE Texts(_, _)
Texts(pieces, n) ==
    IF n = 0 THEN { << >> }
    ELSE LET shorter == Texts(pieces, n - 1)
         IN  shorter \cup { t \o p : t \in shorter, p \in pieces }

-----------------------------------------------------------------------------
(* parse_units_field *)

RadioLit == << "R", "a", "d", "i", "o", ":" >>
UnitsLit == << "U", "n", "i", "t", "s", ":" >>

NoMatch == [ok |-> FALSE, g1 |-> << >>, g2 |-> << >>]

\* the tail  \s*(.+)  matched at index p: \s* is greedy and gives characters
\* back until .+ finds a character that is not a line feed
MatchRest(s, p) ==
    LET e == SkipSpace(s, p)
        starts == { q \in p..e : q <= Len(s) /\ IsDot(s[q]) }
    IN  IF starts = {} THEN NoMatch
        ELSE LET q == CHOOSE x \in starts : \A y \in starts : y <= x
             IN  [ok |-> TRUE, g1 |-> << >>,
                  g2 |-> SubSeq(s, q, SkipDot(s, q) - 1)]

\* the pattern of the Units: rule under re.search: the first index where it
\* matches, anywhere in the text
UnitsMatchSearch(s) ==
    LET hits == { i \in 1..Len(s) :
                    HasLit(s, i, UnitsLit) /\ MatchRest(s, i + Len(UnitsLit)).ok }
    IN  IF hits = {} THEN NoMatch
        ELSE MatchRest(s, (CHOOSE i \in hits : \A j \in hits : i <= j)
                          + Len(UnitsLit))

\* re.match(r'Units:\s*(.+)', units_str), anchored at the start only;
\* group(1) is returned as g2
UnitsMatch(s) ==
    IF HasLit(s, 1, UnitsLit) THEN MatchRest(s, Len(UnitsLit) + 1) ELSE NoMatch

\* re.match(r'Radio:\s*(\S+)\s+Units:\s*(.+)', units_str)
RadioMatch(s) ==
    IF ~HasLit(s, 1, RadioLit) THEN NoMatch
    ELSE LET a == SkipSpace(s, Len(RadioLit) + 1)   \* \s*
             b == SkipNonSpace(s, a)                \* (\S+) is s[a..b-1]
             c == SkipSpace(s, b)                   \* \s+   is s[b..c-1]
         IN  IF a > Len(s) \/ b = a \/ c = b \/ ~HasLit(s, c, UnitsLit)
             THEN NoMatch
             ELSE LET r == MatchRest(s, c + Len(UnitsLit))
                  IN  IF r.ok
                      THEN [ok |-> TRUE, g1 |-> SubSeq(s, a, b - 1), g2 |-> r.g2]
                      ELSE NoMatch

\* len([u.strip() for u in units_list.split(',')]) with empty tokens dropped
UnitCountNonEmpty(units_list) ==
    LET units == Split(units_list, ",")
    IN  Cardinality({ i \in 1..Len(units) : Strip(units[i]) /= << >> })

\* units = [u.strip() for u in units_list.split(',')]; unit_count = len(units)
UnitCount(units_list) ==
    LET parts == Split(units_list, ",")
        units == [i \in 1..Len(parts) |-> Strip(parts[i])]
    IN  Len(units)

parse_units_field(s) ==
    LET radio_match == RadioMatch(s)
        units_match == UnitsMatch(s)
        matched == IF radio_match.ok THEN radio_match.g2
                   ELSE IF units_match.ok THEN units_match.g2
                   ELSE s
        units_list == Strip(matched)
    IN  \* radio_channel or '': None, left when no channel is found, becomes ''
        [radio_channel |-> IF radio_match.ok THEN radio_match.g1 ELSE << >>,
         units_list    |-> units_list,
         unit_count    |-> UnitCount(units_list)]

-----------------------------------------------------------------------------
(* parse_location *)

AptLit == << "A", "p", "t", "/", "U", "n", "i", "t", ":" >>
BlockLit == << "B", "L", "O", "C", "K" >>

LowerLetters ==
    << "a", "b", "c", "d", "e", "f", "g", "h", "i", "j", "k", "l",
       "m", "n", "o", "p", "q", "r", "s", "t", "u", "v", "w", "x",
       "y", "z" >>

UpperLetters ==
    << "A", "B", "C", "D", "E", "F", "G", "H", "I", "J", "K", "L",
       "M", "N", "O", "P", "Q", "R", "S", "T", "U", "V", "W", "X",
       "Y", "Z" >>

\* str.upper() on one character: an ASCII lower-case letter becomes its
\* capital, every other character of the model is kept
UpperChar(c) ==
    IF \E i \in 1..Len(LowerLetters) : LowerLetters[i] = c
    THEN UpperLetters[CHOOSE i \in 1..Len(LowerLetters) : LowerLetters[i] = c]
    ELSE c

Upper(s) == [i \in 1..Len(s) |-> UpperChar(s[i])]

\* lit in s
Contains(s, lit) == \E i \in 1..Len(s) : HasLit(s, i, lit)

\* ', '.join(parts[from:])
RECURSIVE JoinFrom(_, _)
JoinFrom(parts, from) ==
    IF from > Len(parts) THEN << >>
    ELSE IF from = Len(parts) THEN parts[from]
    ELSE parts[from] \o << ",", " " >> \o JoinFrom(parts, from + 1)

\* the pattern  ,\s*Apt/Unit:([^,]+)  matches at index i
AptMatchAt(s, i) ==
    /\ i <= Len(s)
    /\ s[i] = ","
    /\ LET a == SkipSpace(s, i + 1)
       IN  /\ HasLit(s, a, AptLit)
           /\ a + Len(AptLit) <= Len(s)
           /\ s[a + Len(AptLit)] /= ","

\* first index of group(1) and the index after the match, for a match at i
AptGroupStart(s, i) == SkipSpace(s, i + 1) + Len(AptLit)
AptMatchEnd(s, i) == FindChar(s, ",", AptGroupStart(s, i))

\* start of the leftmost match at or after i, Len(s) + 1 if there is none
AptSearch(s, i) ==
    IF \E j \in i..Len(s) : AptMatchAt(s, j)
    THEN CHOOSE j \in i..Len(s) :
            AptMatchAt(s, j) /\ \A k \in i..(j - 1) : ~AptMatchAt(s, k)
    ELSE Len(s) + 1

\* re.sub(r',\s*Apt/Unit:[^,]+', '', location_str): every match removed
RECURSIVE AptRemoveFrom(_, _)
AptRemoveFrom(s, i) ==
    LET m == AptSearch(s, i)
    IN  IF m > Len(s) THEN SubSeq(s, i, Len(s))
        ELSE SubSeq(s, i, m - 1) \o AptRemoveFrom(s, AptMatchEnd(s, m))

\* the classification of parts[0] with the final else branch left out
LocationTypeNoDefault(part0) ==
    IF Contains(part0, << "/" >>) THEN "INTERSECTION"
    ELSE IF Contains(Upper(part0), BlockLit) THEN "BLOCK"
    ELSE ""

\* if '/' in parts[0] ... elif 'BLOCK' in parts[0].upper() ... else
LocationType(part0) ==
    IF Contains(part0, << "/" >>) THEN "INTERSECTION"
    ELSE IF Contains(Upper(part0), BlockLit) THEN "BLOCK"
    ELSE "ADDRESS"

parse_location(s) ==
    LET m == AptSearch(s, 1)
        apt_match == m <= Len(s)
        apartment_unit ==
            IF apt_match
            THEN Strip(SubSeq(s, AptGroupStart(s, m), AptMatchEnd(s, m) - 1))
            ELSE << >>
        work == IF apt_match THEN AptRemoveFrom(s, 1) ELSE s
        raw_parts == Split(work, ",")
        parts == [i \in 1..Len(raw_parts) |-> Strip(raw_parts[i])]
        location_type == LocationType(parts[1])
        streets == Split(parts[1], "/")
    IN  [location_type  |-> location_type,
         street_address |-> IF location_type = "INTERSECTION"
                            THEN Strip(streets[1]) ELSE Strip(parts[1]),
         cross_street   |-> IF location_type = "INTERSECTION" /\ Len(streets) > 1
                            THEN Strip(streets[2]) ELSE << >>,
         apartment_unit |-> apartment_unit,
         building_name  |-> IF Len(parts) > 1 THEN JoinFrom(parts, 2) ELSE << >>,
         full_location  |-> s]

-----------------------------------------------------------------------------
(* datetime.strptime(text, '%Y-%m-%d %H:%M:%S') and the calendar of datetime *)

Digits == { "0", "1", "2", "3", "4", "5", "6", "7", "8", "9" }

DigitVal(c) ==
    CASE c = "0" -> 0 [] c = "1" -> 1 [] c = "2" -> 2 [] c = "3" -> 3
      [] c = "4" -> 4 [] c = "5" -> 5 [] c = "6" -> 6 [] c = "7" -> 7
      [] c = "8" -> 8 [] c = "9" -> 9

\* int() of the digits s[i..j-1]
RECURSIVE Num(_, _, _)
Num(s, i, j) == IF j <= i THEN 0 ELSE 10 * Num(s, i, j - 1) + DigitVal(s[j - 1])

\* index after the run of digits that starts at i
SkipDigits(s, i) ==
    IF \E j \in i..Len(s) : s[j] \notin Digits
    THEN CHOOSE j \in i..Len(s) :
            s[j] \notin Digits /\ \A k \in i..(j - 1) : s[k] \in Digits
    ELSE Len(s) + 1

IsLeap(y) == y % 4 = 0 /\ (y % 100 /= 0 \/ y % 400 = 0)

DaysInMonth(y, m) ==
    IF m = 2 THEN (IF IsLeap(y) THEN 29 ELSE 28)
    ELSE IF m \in {4, 6, 9, 11} THEN 30 ELSE 31

RECURSIVE DaysBeforeMonth(_, _)
DaysBeforeMonth(y, m) ==
    IF m = 1 THEN 0 ELSE DaysBeforeMonth(y, m - 1) + DaysInMonth(y, m - 1)

DaysBeforeYear(y) ==
    (y - 1) * 365 + ((y - 1) \div 4) - ((y - 1) \div 100) + ((y - 1) \div 400)

\* date.toordinal(): 1 for 0001-01-01
ToOrdinal(y, m, d) == DaysBeforeYear(y) + DaysBeforeMonth(y, m) + d

\* date.weekday(): 0 = Monday ... 6 = Sunday
Weekday(y, m, d) == (ToOrdinal(y, m, d) + 6) % 7

\* ordinal of the Monday that starts ISO week 1 of year y
IsoWeek1Monday(y) ==
    LET firstday == ToOrdinal(y, 1, 1)
        firstweekday == (firstday + 6) % 7
        week1monday == firstday - firstweekday
    IN  IF firstweekday > 3 THEN week1monday + 7 ELSE week1monday

\* date.isocalendar()[1]
IsoWeek(y, m, d) ==
    LET today == ToOrdinal(y, m, d)
        week == (today - IsoWeek1Monday(y)) \div 7
    IN  IF today < IsoWeek1Monday(y)
        THEN ((today - IsoWeek1Monday(y - 1)) \div 7) + 1
        ELSE IF week >= 52 /\ today >= IsoWeek1Monday(y + 1) THEN 1
        ELSE week + 1

BadDatetime ==
    [ok |-> FALSE, year |-> 0, month |-> 0, day |-> 0,
     hour |-> 0, minute |-> 0, second |-> 0]

\* a field of one or two digits s[i..j-1] of the strptime pattern; lo..hi is
\* the range its two-digit alternatives accept, lo1 the least single digit
FieldOk(s, i, j, lo, hi, lo1) ==
    \/ j = i + 1 /\ Num(s, i, j) >= lo1
    \/ j = i + 2 /\ Num(s, i, j) >= lo /\ Num(s, i, j) <= hi

\* datetime.strptime(s, '%Y-%m-%d %H:%M:%S'): BadDatetime stands for ValueError
strptime(s) ==
    LET yE == 5                                   \* %Y is \d\d\d\d
        mS == yE + 1
        mE == SkipDigits(s, mS)                   \* %m is 1[0-2]|0[1-9]|[1-9]
        padded == mE + 1 <= Len(s) /\ s[mE + 1] = " "     \* %d may be ' [1-9]'
        dS == IF padded THEN mE + 2 ELSE mE + 1
        dE == SkipDigits(s, dS)                   \* %d is 3[01]|[12]\d|0[1-9]|[1-9]
        hS == SkipSpace(s, dE)                    \* the blank of the format is \s+
        hE == SkipDigits(s, hS)                   \* %H is 2[0-3]|[0-1]\d|\d
        nS == hE + 1
        nE == SkipDigits(s, nS)                   \* %M is [0-5]\d|\d
        sS == nE + 1
        sE == SkipDigits(s, sS)                   \* %S is 6[01]|[0-5]\d|\d
        shape ==
            /\ Len(s) >= 4 /\ \A k \in 1..4 : s[k] \in Digits
            /\ yE <= Len(s) /\ s[yE] = "-"
            /\ FieldOk(s, mS, mE, 1, 12, 1)
            /\ mE <= Len(s) /\ s[mE] = "-"
            /\ FieldOk(s, dS, dE, 1, 31, 1) /\ (padded => dE = dS + 1)
            /\ hS > dE
            /\ FieldOk(s, hS, hE, 0, 23, 0)
            /\ hE <= Len(s) /\ s[hE] = ":"
            /\ FieldOk(s, nS, nE, 0, 59, 0)
            /\ nE <= Len(s) /\ s[nE] = ":"
            /\ FieldOk(s, sS, sE, 0, 61, 0)
            /\ sE = Len(s) + 1                    \* else: unconverted data remains
    IN  IF ~shape THEN BadDatetime
        ELSE LET y == Num(s, 1, 5)
                 m == Num(s, mS, mE)
                 d == Num(s, dS, dE)
                 sec == Num(s, sS, sE)
             IN  \* the datetime constructor rejects year 0, a day the month
                 \* does not have, and the leap seconds the pattern lets through
                 IF y < 1 \/ d > DaysInMonth(y, m) \/ sec > 59 THEN BadDatetime
                 ELSE [ok |-> TRUE, year |-> y, month |-> m, day |-> d,
                       hour |-> Num(s, hS, hE), minute |-> Num(s, nS, nE),
                       second |-> sec]

-----------------------------------------------------------------------------
(* get_temporal_fields *)

day_names == << "Monday", "Tuesday", "Wednesday", "Thursday", "Friday",
                "Saturday", "Sunday" >>

\* the time period with the upper limits of the comparisons included
TimePeriodInclusive(hour) ==
    IF 6 <= hour /\ hour <= 12 THEN "Morning"
    ELSE IF 12 <= hour /\ hour <= 17 THEN "Afternoon"
    ELSE IF 17 <= hour /\ hour <= 21 THEN "Evening"
    ELSE "Night"

TimePeriod(hour) ==
    IF 6 <= hour /\ hour < 12 THEN "Morning"
    ELSE IF 12 <= hour /\ hour < 17 THEN "Afternoon"
    ELSE IF 17 <= hour /\ hour < 21 THEN "Evening"
    ELSE "Night"

Season(month) ==
    IF month \in {12, 1, 2} THEN "Winter"
    ELSE IF month \in {3, 4, 5} THEN "Spring"
    ELSE IF month \in {6, 7, 8} THEN "Summer"
    ELSE "Fall"

get_temporal_fields(dt) ==
    LET day_of_week_num == Weekday(dt.year, dt.month, dt.day)
        hour == dt.hour
    IN  [year         |-> dt.year,
         month        |-> dt.month,
         day          |-> dt.day,
         day_of_week  |-> day_names[day_of_week_num + 1],
         hour         |-> hour,
         time_period  |-> TimePeriod(hour),
         is_weekend   |-> IF day_of_week_num >= 5 THEN "Yes" ELSE "No",
         season       |-> Season(dt.month),
         week_of_year |-> IsoWeek(dt.year, dt.month, dt.day)]

-----------------------------------------------------------------------------
(* process_incidents: deduplication and enrichment *)

\* key = (incident['Datetime'], incident['Event'], incident['Location'])
\* with the Units field added to it
DedupKeyWithUnits(incident) ==
    << incident.Datetime, incident.Event, incident.Location, incident.Units >>

\* the key compared without regard to letter case
DedupKeyFolded(incident) ==
    << Upper(incident.Datetime), Upper(incident.Event), Upper(incident.Location) >>

\* key = (incident['Datetime'], incident['Event'], incident['Location'])
DedupKey(incident) ==
    << incident.Datetime, incident.Event, incident.Location >>

\* the loop over incidents, after its first n rounds
RECURSIVE DedupUpTo(_, _)
DedupUpTo(rows, n) ==
    IF n = 0
    THEN [seen |-> {}, unique_incidents |-> << >>, duplicates_removed |-> 0]
    ELSE CHOOSE after \in
            { IF key \notin before.seen
              THEN [before EXCEPT !.seen = @ \cup {key},
                                  !.unique_incidents = Append(@, rows[n])]
              ELSE [before EXCEPT !.duplicates_removed = @ + 1] :
              before \in { DedupUpTo(rows, n - 1) },
              key \in { DedupKey(rows[n]) } } : TRUE

\* the enhanced record built from one incident and its parsed timestamp
Enhanced(incident, dt) ==
    LET units == parse_units_field(incident.Units)
        location == parse_location(incident.Location)
        temporal == get_temporal_fields(dt)
    IN  [datetime       |-> incident.Datetime,
         event          |-> incident.Event,
         location       |-> incident.Location,
         units          |-> incident.Units,
         radio_channel  |-> units.radio_channel,
         units_list     |-> units.units_list,
         unit_count     |-> units.unit_count,
         location_type  |-> location.location_type,
         street_address |-> location.street_address,
         cross_street   |-> location.cross_street,
         apartment_unit |-> location.apartment_unit,
         building_name  |-> location.building_name,
         year           |-> temporal.year,
         month          |-> temporal.month,
         day            |-> temporal.day,
         day_of_week    |-> temporal.day_of_week,
         hour           |-> temporal.hour,
         time_period    |-> temporal.time_period,
         is_weekend     |-> temporal.is_weekend,
         season         |-> temporal.season,
         week_of_year   |-> temporal.week_of_year]

\* a ValueError of strptime that no handler catches: it leaves the loop
OnValueErrorRaise(acc) == [acc EXCEPT !.raised = TRUE]

\* except ValueError: print a warning; continue
OnValueError(acc) == acc

\* the loop over unique_incidents, after its first n rounds; raised says
\* that an exception has left the loop.  (before and dt are bound through
\* one-element sets so that each is evaluated once.)
RECURSIVE EnhanceUpTo(_, _)
EnhanceUpTo(rows, n) ==
    IF n = 0 THEN [enhanced_incidents |-> << >>, raised |-> FALSE]
    ELSE CHOOSE after \in
            { IF before.raised THEN before
              ELSE IF ~dt.ok THEN OnValueError(before)
              ELSE [before EXCEPT
                      !.enhanced_incidents = Append(@, Enhanced(rows[n], dt))] :
              before \in { EnhanceUpTo(rows, n - 1) },
              dt \in { strptime(rows[n].Datetime) } } : TRUE

-----------------------------------------------------------------------------
(* The files and the run of the __main__ block *)

NoFile == [exists |-> FALSE, header |-> FALSE, rows |-> << >>]

\* a table file that holds its header row and the given rows
TableFile(rows) == [exists |-> TRUE, header |-> TRUE, rows |-> rows]

NoStats == [total_original |-> 0, duplicates_removed |-> 0, total_enhanced |-> 0]

\* the enriched table with the newest record first
EnrichedTableNewestFirst(rows) ==
    LET unique == DedupUpTo(rows, Len(rows)).unique_incidents
        table == EnhanceUpTo(unique, Len(unique)).enhanced_incidents
    IN  [i \in 1..Len(table) |-> table[Len(table) + 1 - i]]

\* the enriched table a completed run writes for the given input rows
EnrichedTable(rows) ==
    CHOOSE table \in
        { EnhanceUpTo(unique, Len(unique)).enhanced_incidents :
          unique \in { DedupUpTo(rows, Len(rows)).unique_incidents } } : TRUE

\* the run begins: the locals of an earlier run are gone
StartRun ==
    /\ pc \in {"idle", "failed", "crashed", "reported", "report_failed"}
    /\ pc' = "start"
    /\ incidents' = << >>
    /\ unique_incidents' = << >>
    /\ duplicates_removed' = 0
    /\ enhanced_incidents' = << >>
    /\ stats' = NoStats
    /\ report' = "none"
    /\ output_at_start' = output_file
    /\ UNCHANGED <<input_file, output_file, last_complete, fn_vars, hist_vars,
                   col_vars>>

\* the output opened for writing before the input is read
ReadInputOutputFirst ==
    /\ pc = "start"
    /\ output_file' = [exists |-> TRUE, header |-> FALSE, rows |-> << >>]
    /\ IF input_file.exists
       THEN pc' = "read" /\ incidents' = input_file.rows
       ELSE pc' = "failed" /\ incidents' = incidents
    /\ UNCHANGED <<input_file, unique_incidents, duplicates_removed,
                   enhanced_incidents, stats, report, output_at_start,
                   last_complete, fn_vars, hist_vars, col_vars>>

\* with open(input_file, 'r') as f: incidents = list(csv.DictReader(f));
\* FileNotFoundError leaves process_incidents and the program
ReadInput ==
    /\ pc = "start"
    /\ IF input_file.exists
       THEN pc' = "read" /\ incidents' = input_file.rows
       ELSE pc' = "failed" /\ incidents' = incidents
    /\ UNCHANGED <<input_file, output_file, unique_incidents,
                   duplicates_removed, enhanced_incidents, stats, report,
                   output_at_start, last_complete, fn_vars, hist_vars, col_vars>>

\* the deduplication loop
RemoveDuplicates ==
    /\ pc = "read"
    /\ \E d \in { DedupUpTo(incidents, Len(incidents)) } :
           /\ unique_incidents' = d.unique_incidents
           /\ duplicates_removed' = d.duplicates_removed
    /\ pc' = "deduped"
    /\ UNCHANGED <<input_file, output_file, incidents, enhanced_incidents,
                   stats, report, output_at_start, last_complete, fn_vars,
                   hist_vars, col_vars>>

\* the enrichment loop
EnhanceIncidents ==
    /\ pc = "deduped"
    /\ \E e \in { EnhanceUpTo(unique_incidents, Len(unique_incidents)) } :
           /\ enhanced_incidents' = e.enhanced_incidents
           /\ pc' = IF e.raised THEN "failed" ELSE "enhanced"
    /\ UNCHANGED <<input_file, output_file, incidents, unique_incidents,
                   duplicates_removed, stats, report, output_at_start,
                   last_complete, fn_vars, hist_vars, col_vars>>

\* open(output_file, 'w', newline=''): the file is created or cut to nothing
OpenOutput ==
    /\ pc = "enhanced"
    /\ output_file' = [exists |-> TRUE, header |-> FALSE, rows |-> << >>]
    /\ pc' = "opened"
    /\ UNCHANGED <<input_file, incidents, unique_incidents, duplicates_removed,
                   enhanced_incidents, stats, report, output_at_start,
                   last_complete, fn_vars, hist_vars, col_vars>>

\* writer.writeheader()
WriteHeader ==
    /\ pc = "opened"
    /\ output_file' = [output_file EXCEPT !.header = TRUE]
    /\ pc' = "writing"
    /\ UNCHANGED <<input_file, incidents, unique_incidents, duplicates_removed,
                   enhanced_incidents, stats, report, output_at_start,
                   last_complete, fn_vars, hist_vars, col_vars>>

\* writer.writerows(enhanced_incidents), one row at a time
WriteRow ==
    /\ pc = "writing"
    /\ Len(output_file.rows) < Len(enhanced_incidents)
    /\ output_file' = [output_file EXCEPT
                         !.rows = Append(@, enhanced_incidents[Len(@) + 1])]
    /\ UNCHANGED <<pc, input_file, incidents, unique_incidents,
                   duplicates_removed, enhanced_incidents, stats, report,
                   output_at_start, last_complete, fn_vars, hist_vars, col_vars>>

\* the with block ends and process_incidents returns its statistics
CloseOutput ==
    /\ pc = "writing"
    /\ Len(output_file.rows) = Len(enhanced_incidents)
    /\ stats' = [total_original     |-> Len(incidents),
                 duplicates_removed |-> duplicates_removed,
                 total_enhanced     |-> Len(enhanced_incidents)]
    /\ last_complete' = output_file
    /\ pc' = "processed"
    /\ UNCHANGED <<input_file, output_file, incidents, unique_incidents,
                   duplicates_removed, enhanced_incidents, report,
                   output_at_start, fn_vars, hist_vars, col_vars>>

\* the process dies while the output is open (killed, disk full, power):
\* the file keeps what had been written, the memory of the process is gone
Crash ==
    /\ pc \in {"opened", "writing"}
    /\ pc' = "crashed"
    /\ incidents' = << >>
    /\ unique_incidents' = << >>
    /\ duplicates_removed' = 0
    /\ enhanced_incidents' = << >>
    /\ UNCHANGED <<input_file, output_file, stats, report, output_at_start,
                   last_complete, fn_vars, hist_vars, col_vars>>

\* generate_quality_report(stats, output_file): data is read back from the
\* output; min(dates) of no dates raises ValueError before any division
GenerateQualityReport ==
    /\ pc = "processed"
    /\ LET data == output_file.rows
       IN  IF Len(data) = 0
           THEN report' = "ValueError" /\ pc' = "report_failed"
           ELSE report' = "written" /\ pc' = "reported"
    /\ UNCHANGED <<input_file, output_file, incidents, unique_incidents,
                   duplicates_removed, enhanced_incidents, stats,
                   output_at_start, last_complete, fn_vars, hist_vars, col_vars>>

-----------------------------------------------------------------------------
(* The input tables of the model *)

DtSaturday == << "2","0","2","4","-","0","1","-","0","6"," ",
                 "0","5",":","0","0",":","0","0" >>
\* the same instant without the leading zeros: strptime accepts it
DtSaturdayShort == << "2","0","2","4","-","1","-","6"," ",
                      "5",":","0","0",":","0","0" >>
\* month 13: strptime raises ValueError
DtMalformed == << "2","0","2","4","-","1","3","-","0","6"," ",
                  "0","5",":","0","0",":","0","0" >>

EvFire == << "F","I","R","E" >>
EvFireLower == << "F","i","r","e" >>

LocCorner == << "A","/","B" >>
LocCornerBlank == << "A","/","B"," " >>

UnitsOne == UnitsLit \o << " ","E","1" >>
UnitsTwo == RadioLit \o << " ","9" >> \o << " " >> \o UnitsLit
            \o << " ","E","1",","," ","M","2" >>

Raw(dt, ev, loc, un) ==
    [Datetime |-> dt, Event |-> ev, Location |-> loc, Units |-> un]

RawRows ==
    { Raw(DtSaturday, EvFire, LocCorner, UnitsOne),
      Raw(DtSaturday, EvFire, LocCorner, UnitsTwo),
      Raw(DtSaturday, EvFireLower, LocCorner, UnitsOne),
      Raw(DtSaturday, EvFire, LocCornerBlank, UnitsOne),
      Raw(DtSaturdayShort, EvFire, LocCorner, UnitsOne),
      Raw(DtMalformed, EvFire, LocCorner, UnitsOne) }

RECURSIVE Tables(_)
Tables(n) ==
    IF n = 0 THEN { << >> }
    ELSE LET shorter == Tables(n - 1)
         IN  shorter \cup { Append(t, r) : t \in shorter, r \in RawRows }

\* what an earlier run may have left as the output: nothing, or the complete
\* table of a run over an earlier input
EarlierOutputs ==
    { NoFile,
      TableFile(EnrichedTable(<< >>)),
      TableFile(EnrichedTable(
          << Raw(DtSaturday, EvFire, LocCorner, UnitsOne) >>)) }

\* the input table grows between the runs of process_incidents
\* no run of process_incidents yet
NoRun == [ran |-> FALSE, input |-> << >>, output |-> << >>, stats |-> NoStats]

\* process_incidents(input_file, output_file) from its first line to its
\* return, over an input file that exists: the table written and the
\* statistics returned
process_incidents(rows) ==
    CHOOSE result \in
        { [output |-> table,
           stats  |-> [total_original     |-> Len(rows),
                       duplicates_removed |-> d.duplicates_removed,
                       total_enhanced     |-> Len(table)]] :
          d \in { DedupUpTo(rows, Len(rows)) },
          table \in { EnrichedTable(rows) } } : TRUE

\* the collector has run in between: rows are added at the end of the table
AppendRows ==
    /\ pc \in {"idle", "processed"}
    /\ Len(input_file.rows) < MaxRows
    /\ \E r \in RawRows :
           input_file' = [input_file EXCEPT !.rows = Append(@, r)]
    /\ UNCHANGED <<pc, output_file, incidents, unique_incidents,
                   duplicates_removed, enhanced_incidents, stats, report,
                   output_at_start, last_complete, fn_vars, hist_vars,
                   col_vars>>

\* one whole run of process_incidents
ProcessIncidents ==
    /\ pc \in {"idle", "processed"}
    /\ input_file.exists
    /\ \E result \in { process_incidents(input_file.rows) } :
           /\ output_file' = TableFile(result.output)
           /\ stats' = result.stats
           /\ later_run' = [ran |-> TRUE, input |-> input_file.rows,
                            output |-> result.output, stats |-> result.stats]
    /\ earlier_run' = later_run
    /\ output_at_start' = output_file
    /\ last_complete' = output_file'
    /\ pc' = "processed"
    /\ UNCHANGED <<input_file, incidents, unique_incidents, duplicates_removed,
                   enhanced_incidents, report, fn_vars, col_vars>>

-----------------------------------------------------------------------------
(* The collector (fredscanner.py): text handling and parse_datetime *)

\* index of the first occurrence of the text lit at or after i, Len(s)+1 if none
FindLit(s, lit, i) ==
    IF \E j \in i..Len(s) : HasLit(s, j, lit)
    THEN CHOOSE j \in i..Len(s) :
            HasLit(s, j, lit) /\ \A k \in i..(j - 1) : ~HasLit(s, k, lit)
    ELSE Len(s) + 1

\* str.split(lit) for a separator of several characters
RECURSIVE SplitLitFrom(_, _, _)
SplitLitFrom(s, lit, i) ==
    LET j == FindLit(s, lit, i)
    IN  IF j > Len(s) THEN << SubSeq(s, i, Len(s)) >>
        ELSE << SubSeq(s, i, j - 1) >> \o SplitLitFrom(s, lit, j + Len(lit))

SplitLit(s, lit) == SplitLitFrom(s, lit, 1)

\* str.replace(lit, ""): every occurrence removed, left to right
RECURSIVE RemoveLitFrom(_, _, _)
RemoveLitFrom(s, lit, i) ==
    LET j == FindLit(s, lit, i)
    IN  IF j > Len(s) THEN SubSeq(s, i, Len(s))
        ELSE SubSeq(s, i, j - 1) \o RemoveLitFrom(s, lit, j + Len(lit))

BarLit == << " ", "|", " " >>
PostedLit == << "p", "o", "s", "t", "e", "d", " " >>

\* max_datetime is None
None == BadDatetime

\* datetime.strptime(time_str, "%I:%M %p"); the hour of the 12-hour clock
\* is turned into the hour of the day
strptime_time(s) ==
    LET iE == SkipDigits(s, 1)                    \* %I is 1[0-2]|0[1-9]|[1-9]
        mS == iE + 1
        mE == SkipDigits(s, mS)                   \* %M is [0-5]\d|\d
        pS == SkipSpace(s, mE)                    \* the blank of the format is \s+
        p == Upper(SubSeq(s, pS, Len(s)))         \* %p is am|pm, any case
        shape ==
            /\ FieldOk(s, 1, iE, 1, 12, 1)
            /\ iE <= Len(s) /\ s[iE] = ":"
            /\ FieldOk(s, mS, mE, 0, 59, 0)
            /\ pS > mE
            /\ p \in { << "A", "M" >>, << "P", "M" >> }
        hour == Num(s, 1, iE)
    IN  IF ~shape THEN BadDatetime
        ELSE [BadDatetime EXCEPT
                !.ok = TRUE,
                !.hour = IF p = << "A", "M" >>
                         THEN (IF hour = 12 THEN 0 ELSE hour)
                         ELSE (IF hour = 12 THEN 12 ELSE hour + 12),
                !.minute = Num(s, mS, mE)]

\* datetime.strptime(date_str, "%m/%d/%Y")
strptime_date(s) ==
    LET mE == SkipDigits(s, 1)                    \* %m is 1[0-2]|0[1-9]|[1-9]
        padded == mE + 1 <= Len(s) /\ s[mE + 1] = " "     \* %d may be ' [1-9]'
        dS == IF padded THEN mE + 2 ELSE mE + 1
        dE == SkipDigits(s, dS)                   \* %d is 3[01]|[12]\d|0[1-9]|[1-9]
        yS == dE + 1
        shape ==
            /\ FieldOk(s, 1, mE, 1, 12, 1)
            /\ mE <= Len(s) /\ s[mE] = "/"
            /\ FieldOk(s, dS, dE, 1, 31, 1) /\ (padded => dE = dS + 1)
            /\ dE <= Len(s) /\ s[dE] = "/"
            /\ Len(s) = yS + 3                    \* %Y is \d\d\d\d, then the end
            /\ \A k \in yS..(yS + 3) : s[k] \in Digits
    IN  IF ~shape THEN BadDatetime
        ELSE LET y == Num(s, yS, yS + 4)
                 m == Num(s, 1, mE)
                 d == Num(s, dS, dE)
             IN  IF y < 1 \/ d > DaysInMonth(y, m) THEN BadDatetime
                 ELSE [BadDatetime EXCEPT
                         !.ok = TRUE, !.year = y, !.month = m, !.day = d]

\* parse_datetime(time_str, date_str): BadDatetime stands for ValueError
parse_datetime(time_str, date_str) ==
    LET time == strptime_time(time_str)
        date == strptime_date(date_str)
    IN  IF ~time.ok \/ ~date.ok THEN BadDatetime
        ELSE [date EXCEPT !.hour = time.hour, !.minute = time.minute]

\* the order of two datetime objects: that of their fields, year first
DatetimeKey(dt) == << dt.year, dt.month, dt.day, dt.hour, dt.minute, dt.second >>

DatetimeGreater(a, b) ==
    \E i \in 1..6 :
        /\ DatetimeKey(a)[i] > DatetimeKey(b)[i]
        /\ \A j \in 1..(i - 1) : DatetimeKey(a)[j] = DatetimeKey(b)[j]

DigitChar(n) ==
    CASE n = 0 -> "0" [] n = 1 -> "1" [] n = 2 -> "2" [] n = 3 -> "3"
      [] n = 4 -> "4" [] n = 5 -> "5" [] n = 6 -> "6" [] n = 7 -> "7"
      [] n = 8 -> "8" [] n = 9 -> "9"

Pad2(n) == << DigitChar(n \div 10), DigitChar(n % 10) >>

\* str(datetime_obj), which is what csv.writer puts into the Datetime column
FormatDatetime(dt) ==
    Pad2(dt.year \div 100) \o Pad2(dt.year % 100) \o << "-" >> \o Pad2(dt.month)
        \o << "-" >> \o Pad2(dt.day) \o << " " >> \o Pad2(dt.hour)
        \o << ":" >> \o Pad2(dt.minute) \o << ":" >> \o Pad2(dt.second)

\* the loop of read_existing_incidents, after its first n rows; raised says
\* that strptime has raised ValueError, which nothing catches
RECURSIVE ReadExistingUpTo(_, _)
ReadExistingUpTo(rows, n) ==
    IF n = 0 THEN [raised |-> FALSE, max_datetime |-> None]
    ELSE CHOOSE after \in
            { IF before.raised THEN before
              ELSE IF ~incident_datetime.ok THEN [before EXCEPT !.raised = TRUE]
              ELSE IF before.max_datetime = None
                      \/ DatetimeGreater(incident_datetime, before.max_datetime)
                   THEN [before EXCEPT !.max_datetime = incident_datetime]
                   ELSE before :
              before \in { ReadExistingUpTo(rows, n - 1) },
              incident_datetime \in { strptime(rows[n].Datetime) } } : TRUE

\* read_existing_incidents(filename): FileNotFoundError is passed over
read_existing_incidents(file) ==
    IF ~file.exists THEN [raised |-> FALSE, max_datetime |-> None]
    ELSE ReadExistingUpTo(file.rows, Len(file.rows))

\* the test with the threshold itself let through
IsNewOrEqual(max, dt) == max = None \/ ~DatetimeGreater(max, dt)

\* if max_datetime is None or datetime_obj > max_datetime
IsNew(max, dt) == max = None \/ DatetimeGreater(dt, max)

CsvRow(time, event, location, units, date, datetime) ==
    [Time |-> time, Event |-> event, Location |-> location, Units |-> units,
     Date |-> date, Datetime |-> datetime]

NoRow == CsvRow(<< >>, << >>, << >>, << >>, << >>, << >>)

\* one round of the loop over incident_texts: raised stands for the
\* IndexError of split("(")[1] or the ValueError of parse_datetime, write
\* says whether writer.writerow is reached, row is what it writes
HandleText(text, max) ==
    LET parts == SplitLit(text, BarLit)
        n == Len(parts)
        posted == Split(parts[n], "(")
        date == RemoveLitFrom(SubSeq(posted[2], 1, Len(posted[2]) - 1),
                              PostedLit, 1)
        datetime == parse_datetime(parts[1], date)
        units == IF n = 5 THEN parts[4] ELSE parts[4] \o << " " >> \o parts[5]
    IN  IF n \notin {5, 6} THEN [raised |-> FALSE, write |-> FALSE, row |-> NoRow]
        ELSE IF Len(posted) < 2 \/ ~datetime.ok
        THEN [raised |-> TRUE, write |-> FALSE, row |-> NoRow]
        ELSE [raised |-> FALSE,
              write  |-> IsNew(max, datetime),
              row    |-> CsvRow(parts[1], parts[2], parts[3], units, date,
                                FormatDatetime(datetime))]

-----------------------------------------------------------------------------
(* The run of the collector *)

\* the texts a page of the source may hold
TimeFiveAm == << "5", ":", "0", "0", " ", "A", "M" >>
TimeFivePm == << "5", ":", "0", "0", " ", "P", "M" >>
TimeMidnight == << "1", "2", ":", "0", "5", " ", "a", "m" >>
PostedSaturday ==
    << "1", "h", " ", "(" >> \o PostedLit
        \o << "0", "1", "/", "0", "6", "/", "2", "0", "2", "4", ")" >>
PostedSunday ==
    << "(" >> \o PostedLit \o << "1", "/", "7", "/", "2", "0", "2", "4", ")" >>
PostedNoParen == << "0", "1", "/", "0", "6", "/", "2", "0", "2", "4" >>
UnitsRadio == RadioLit \o << " ", "9" >>

RECURSIVE JoinBar(_, _)
JoinBar(parts, from) ==
    IF from = Len(parts) THEN parts[from]
    ELSE parts[from] \o BarLit \o JoinBar(parts, from + 1)

PageTexts ==
    { \* 2024-01-06 05:00:00, the instant of DtSaturday
      JoinBar(<< TimeFiveAm, EvFire, LocCorner, UnitsOne, PostedSaturday >>, 1),
      \* 2024-01-06 17:00:00
      JoinBar(<< TimeFivePm, EvFire, LocCorner, UnitsOne, PostedSaturday >>, 1),
      \* six parts: 2024-01-07 00:05:00
      JoinBar(<< TimeMidnight, EvFire, LocCorner, UnitsRadio, UnitsOne,
                 PostedSunday >>, 1),
      \* four parts: passed over
      JoinBar(<< EvFire, LocCorner, UnitsOne, PostedSaturday >>, 1),
      \* no "(" in the last part: IndexError
      JoinBar(<< TimeFivePm, EvFire, LocCorner, UnitsOne, PostedNoParen >>, 1) }

RECURSIVE Pages(_)
Pages(n) ==
    IF n = 0 THEN { << >> }
    ELSE LET shorter == Pages(n - 1)
         IN  shorter \cup { Append(p, t) : p \in shorter, t \in PageTexts }

\* incidents.csv with its header row and the given rows
CsvFile(rows) == [exists |-> TRUE, header |-> TRUE, rows |-> rows]

\* incidents.csv of no bytes
EmptyCsv == [exists |-> TRUE, header |-> FALSE, rows |-> << >>]

RowSaturday ==
    CsvRow(TimeFiveAm, EvFire, LocCorner, UnitsOne,
           << "0", "1", "/", "0", "6", "/", "2", "0", "2", "4" >>, DtSaturday)

\* a row somebody has edited by hand: its Datetime does not parse
RowMalformed == [RowSaturday EXCEPT !.Datetime = DtMalformed]

EarlierCsvs ==
    { NoFile, EmptyCsv, CsvFile(<< >>), CsvFile(<< RowSaturday >>),
      CsvFile(<< RowMalformed >>) }

\* the script begins: the names of an earlier run are gone
StartCollector ==
    /\ col_pc \in {"idle", "done", "failed"}
    /\ Len(incidents_csv.rows) + MaxPage <= MaxCsvRows
    /\ col_pc' = "start"
    /\ max_datetime' = None
    /\ incident_texts' = << >>
    /\ text_index' = 0
    /\ csv_at_start' = incidents_csv
    /\ appended' = << >>
    /\ UNCHANGED <<incidents_csv, fn_vars, run_vars, hist_vars>>

\* max_datetime = read_existing_incidents("incidents.csv")
ReadExistingIncidents ==
    /\ col_pc = "start"
    /\ \E r \in { read_existing_incidents(incidents_csv) } :
           /\ col_pc' = IF r.raised THEN "failed" ELSE "read"
           /\ max_datetime' = r.max_datetime
    /\ UNCHANGED <<incidents_csv, incident_texts, text_index, csv_at_start,
                   appended, fn_vars, run_vars, hist_vars>>

\* r = requests.get(url) and the <p> texts of the page; the request may
\* raise instead
FetchPage ==
    /\ col_pc = "read"
    /\ \/ \E page \in Pages(MaxPage) :
              incident_texts' = page /\ col_pc' = "fetched"
       \/ incident_texts' = incident_texts /\ col_pc' = "failed"
    /\ UNCHANGED <<incidents_csv, max_datetime, text_index, csv_at_start,
                   appended, fn_vars, run_vars, hist_vars>>

\* the file opened with mode "w": what it held is cut away
OpenCsvTruncate ==
    /\ col_pc = "fetched"
    /\ incidents_csv' = EmptyCsv
    /\ col_pc' = "opened"
    /\ UNCHANGED <<max_datetime, incident_texts, text_index, csv_at_start,
                   appended, fn_vars, run_vars, hist_vars>>

\* with open("incidents.csv", "a", newline="") as csvfile: the file is
\* created if it is missing, what it holds stays
OpenCsv ==
    /\ col_pc = "fetched"
    /\ incidents_csv' = [incidents_csv EXCEPT !.exists = TRUE]
    /\ col_pc' = "opened"
    /\ UNCHANGED <<max_datetime, incident_texts, text_index, csv_at_start,
                   appended, fn_vars, run_vars, hist_vars>>

\* file_empty = csvfile.tell() == 0; the header row is written if so
WriteCsvHeader ==
    /\ col_pc = "opened"
    /\ LET file_empty == ~incidents_csv.header /\ incidents_csv.rows = << >>
       IN  incidents_csv' = IF file_empty
                            THEN [incidents_csv EXCEPT !.header = TRUE]
                            ELSE incidents_csv
    /\ text_index' = 1
    /\ col_pc' = "loop"
    /\ UNCHANGED <<max_datetime, incident_texts, csv_at_start, appended,
                   fn_vars, run_vars, hist_vars>>

\* one round of  for text in incident_texts; an exception closes the file
\* with the rows written so far and ends the script
HandleIncidentText ==
    /\ col_pc = "loop"
    /\ text_index <= Len(incident_texts)
    /\ \E h \in { HandleText(incident_texts[text_index], max_datetime) } :
           /\ col_pc' = IF h.raised THEN "failed" ELSE "loop"
           /\ incidents_csv' =
                  IF h.write
                  THEN [incidents_csv EXCEPT !.rows = Append(@, h.row)]
                  ELSE incidents_csv
           /\ appended' = IF h.write THEN Append(appended, h.row) ELSE appended
    /\ text_index' = text_index + 1
    /\ UNCHANGED <<max_datetime, incident_texts, csv_at_start, fn_vars,
                   run_vars, hist_vars>>

\* the loop and the with block end
CloseCsv ==
    /\ col_pc = "loop"
    /\ text_index > Len(incident_texts)
    /\ col_pc' = "done"
    /\ UNCHANGED <<incidents_csv, max_datetime, incident_texts, text_index,
                   csv_at_start, appended, fn_vars, run_vars, hist_vars>>

-----------------------------------------------------------------------------
(* Specifications *)

HistIdle ==
    /\ earlier_run = NoRun
    /\ later_run = NoRun

ColIdle ==
    /\ col_pc = "off"
    /\ incidents_csv = NoFile
    /\ max_datetime = None
    /\ incident_texts = << >>
    /\ text_index = 0
    /\ csv_at_start = NoFile
    /\ appended = << >>


FnIdle ==
    /\ fn_pc = "idle"
    /\ units_str = << >>
    /\ units_data = [radio_channel |-> << >>, units_list |-> << >>,
                     unit_count |-> 0]
    /\ location_str = << >>
    /\ location_data =
         [location_type |-> "", street_address |-> << >>,
          cross_street |-> << >>, apartment_unit |-> << >>,
          building_name |-> << >>, full_location |-> << >>]
    /\ datetime_obj = BadDatetime
    /\ temporal_data =
         [year |-> 0, month |-> 0, day |-> 0, day_of_week |-> "", hour |-> 0,
          time_period |-> "", is_weekend |-> "", season |-> "",
          week_of_year |-> 0]

RunIdle ==
    /\ pc = "off"
    /\ input_file = NoFile
    /\ output_file = NoFile
    /\ incidents = << >>
    /\ unique_incidents = << >>
    /\ duplicates_removed = 0
    /\ enhanced_incidents = << >>
    /\ stats = NoStats
    /\ report = "none"
    /\ output_at_start = NoFile
    /\ last_complete = NoFile

\* the pipeline: incidents.csv is missing or holds any table of the model
Init ==
    /\ FnIdle
    /\ HistIdle
    /\ ColIdle
    /\ pc = "idle"
    /\ input_file \in { NoFile } \cup { TableFile(t) : t \in Tables(MaxRows) }
    /\ output_file \in EarlierOutputs
    /\ incidents = << >>
    /\ unique_incidents = << >>
    /\ duplicates_removed = 0
    /\ enhanced_incidents = << >>
    /\ stats = NoStats
    /\ report = "none"
    /\ output_at_start = output_file
    /\ last_complete = output_file

Next ==
    \/ StartRun
    \/ ReadInput
    \/ RemoveDuplicates
    \/ EnhanceIncidents
    \/ OpenOutput
    \/ WriteHeader
    \/ WriteRow
    \/ CloseOutput
    \/ Crash
    \/ GenerateQualityReport

Spec == Init /\ [][Next]_vars

\* direct calls of parse_units_field
UnitsPieces == { RadioLit, UnitsLit, << " " >>, << "\n" >>, << "," >>,
                 << "9" >>, << "E" >> }

InitUnits ==
    /\ RunIdle
    /\ HistIdle
    /\ ColIdle
    /\ fn_pc = "call"
    /\ units_str \in Texts(UnitsPieces, MaxUnitsPieces)
    /\ units_data = [radio_channel |-> << >>, units_list |-> << >>,
                     unit_count |-> 0]
    /\ location_str = << >>
    /\ location_data =
         [location_type |-> "", street_address |-> << >>,
          cross_street |-> << >>, apartment_unit |-> << >>,
          building_name |-> << >>, full_location |-> << >>]
    /\ datetime_obj = BadDatetime
    /\ temporal_data =
         [year |-> 0, month |-> 0, day |-> 0, day_of_week |-> "", hour |-> 0,
          time_period |-> "", is_weekend |-> "", season |-> "",
          week_of_year |-> 0]

CallParseUnits ==
    /\ fn_pc = "call"
    /\ units_data' = parse_units_field(units_str)
    /\ fn_pc' = "return"
    /\ UNCHANGED <<units_str, location_str, location_data, datetime_obj,
                   temporal_data, run_vars, hist_vars, col_vars>>

SpecUnits == InitUnits /\ [][CallParseUnits]_vars

\* direct calls of parse_location
LocationPieces == { AptLit, BlockLit, << "B", "l", "o", "c", "k" >>,
                    << "/" >>, << "," >>, << " " >>, << "A" >> }

InitLocation ==
    /\ RunIdle
    /\ HistIdle
    /\ ColIdle
    /\ fn_pc = "call"
    /\ location_str \in Texts(LocationPieces, MaxLocationPieces)
    /\ location_data =
         [location_type |-> "", street_address |-> << >>,
          cross_street |-> << >>, apartment_unit |-> << >>,
          building_name |-> << >>, full_location |-> << >>]
    /\ units_str = << >>
    /\ units_data = [radio_channel |-> << >>, units_list |-> << >>,
                     unit_count |-> 0]
    /\ datetime_obj = BadDatetime
    /\ temporal_data =
         [year |-> 0, month |-> 0, day |-> 0, day_of_week |-> "", hour |-> 0,
          time_period |-> "", is_weekend |-> "", season |-> "",
          week_of_year |-> 0]

CallParseLocation ==
    /\ fn_pc = "call"
    /\ location_data' = parse_location(location_str)
    /\ fn_pc' = "return"
    /\ UNCHANGED <<units_str, units_data, location_str, datetime_obj,
                   temporal_data, run_vars, hist_vars, col_vars>>

SpecLocation == InitLocation /\ [][CallParseLocation]_vars

\* direct calls of get_temporal_fields
Years == { 2023, 2024, 2025 }

InitTemporal ==
    /\ RunIdle
    /\ HistIdle
    /\ ColIdle
    /\ fn_pc = "call"
    /\ datetime_obj \in
         { [ok |-> TRUE, year |-> y, month |-> m, day |-> d, hour |-> h,
            minute |-> 0, second |-> 0] :
           y \in Years, m \in 1..12, d \in 1..31, h \in 0..23 }
    /\ datetime_obj.day <= DaysInMonth(datetime_obj.year, datetime_obj.month)
    /\ temporal_data =
         [year |-> 0, month |-> 0, day |-> 0, day_of_week |-> "", hour |-> 0,
          time_period |-> "", is_weekend |-> "", season |-> "",
          week_of_year |-> 0]
    /\ units_str = << >>
    /\ units_data = [radio_channel |-> << >>, units_list |-> << >>,
                     unit_count |-> 0]
    /\ location_str = << >>
    /\ location_data =
         [location_type |-> "", street_address |-> << >>,
          cross_street |-> << >>, apartment_unit |-> << >>,
          building_name |-> << >>, full_location |-> << >>]

CallGetTemporalFields ==
    /\ fn_pc = "call"
    /\ temporal_data' = get_temporal_fields(datetime_obj)
    /\ fn_pc' = "return"
    /\ UNCHANGED <<units_str, units_data, location_str, location_data,
                   datetime_obj, run_vars, hist_vars, col_vars>>

SpecTemporal == InitTemporal /\ [][CallGetTemporalFields]_vars

\* the collector: incidents.csv is missing, empty, or holds an earlier table
InitCollector ==
    /\ FnIdle
    /\ RunIdle
    /\ HistIdle
    /\ col_pc = "idle"
    /\ incidents_csv \in EarlierCsvs
    /\ max_datetime = None
    /\ incident_texts = << >>
    /\ text_index = 0
    /\ csv_at_start = incidents_csv
    /\ appended = << >>

NextCollector ==
    \/ StartCollector
    \/ ReadExistingIncidents
    \/ FetchPage
    \/ OpenCsv
    \/ WriteCsvHeader
    \/ HandleIncidentText
    \/ CloseCsv

SpecCollector == InitCollector /\ [][NextCollector]_vars

\* runs of process_incidents over an input table that rows are appended to
InitGrowth ==
    /\ FnIdle
    /\ ColIdle
    /\ HistIdle
    /\ pc = "idle"
    /\ input_file \in { TableFile(t) : t \in Tables(1) }
    /\ output_file = NoFile
    /\ incidents = << >>
    /\ unique_incidents = << >>
    /\ duplicates_removed = 0
    /\ enhanced_incidents = << >>
    /\ stats = NoStats
    /\ report = "none"
    /\ output_at_start = NoFile
    /\ last_complete = NoFile

NextGrowth ==
    \/ AppendRows
    \/ ProcessIncidents

SpecGrowth == InitGrowth /\ [][NextGrowth]_vars

-----------------------------------------------------------------------------
(* Properties of the enrichment run (specification Spec) *)

\* two records carry the same (datetime, event, location)
SameTriple(a, b) ==
    a.datetime = b.datetime /\ a.event = b.event /\ a.location = b.location

NoTwoShareTriple(records) ==
    \A i, j \in 1..Len(records) : i /= j => ~SameTriple(records[i], records[j])

\* C1: the enriched output, in memory and as far as it is written to the
\* output table, never holds two records with the same (datetime, event,
\* location) triple.
C1_NoDuplicateTriples ==
    /\ NoTwoShareTriple(enhanced_incidents)
    /\ NoTwoShareTriple(output_file.rows)

\* a run has written a table of two records after dropping duplicates
C1_Witness ==
    /\ pc = "processed"
    /\ duplicates_removed > 0
    /\ Len(output_file.rows) >= 2

\* positions of the run at which the deduplication loop has finished
AfterDedup ==
    { "deduped", "enhanced", "opened", "writing", "processed", "reported",
      "report_failed" }

\* two raw rows agree, character by character, on Datetime, Event, Location
SameRawTriple(a, b) ==
    a.Datetime = b.Datetime /\ a.Event = b.Event /\ a.Location = b.Location

\* the rows among the first n whose triple no earlier row carries, in order
RECURSIVE FirstOccurrences(_, _)
FirstOccurrences(rows, n) ==
    IF n = 0 THEN << >>
    ELSE IF \E j \in 1..(n - 1) : SameRawTriple(rows[j], rows[n])
         THEN FirstOccurrences(rows, n - 1)
         ELSE Append(FirstOccurrences(rows, n - 1), rows[n])

\* C2: deduplication keeps exactly the first row of each exact (Datetime,
\* Event, Location) triple, in input order, and counts every row it drops:
\* len(unique_incidents) = len(incidents) - duplicates_removed.  Triples that
\* differ in case or whitespace are different triples.
C2_DedupKeepsFirstOccurrences ==
    pc \in AfterDedup =>
        /\ unique_incidents = FirstOccurrences(incidents, Len(incidents))
        /\ Len(unique_incidents) = Len(incidents) - duplicates_removed

\* a table of three rows: an exact repeat, which is dropped, and a row that
\* differs from the first in letter case only, which is kept
C2_Witness ==
    /\ pc = "processed"
    /\ Len(incidents) = 3
    /\ duplicates_removed = 1
    /\ \E i, j \in 1..Len(unique_incidents) :
          /\ unique_incidents[i].Event /= unique_incidents[j].Event
          /\ Upper(unique_incidents[i].Event) = Upper(unique_incidents[j].Event)
          /\ unique_incidents[i].Datetime = unique_incidents[j].Datetime
          /\ unique_incidents[i].Location = unique_incidents[j].Location

\* positions of the run at which the enrichment loop has finished
AfterEnhance ==
    { "enhanced", "opened", "writing", "processed", "reported",
      "report_failed" }

Parseable(row) == strptime(row.Datetime).ok

\* the raw fields an enhanced record carries
RawOf(records) ==
    [i \in 1..Len(records) |->
        [Datetime |-> records[i].datetime, Event |-> records[i].event,
         Location |-> records[i].location, Units |-> records[i].units]]

\* C3: a dedup survivor whose Datetime does not parse is skipped and the run
\* goes on: the run fails only for a missing input, the enriched output is
\* the dedup survivors with a parseable Datetime, in their order, and
\* stats.total_enhanced is the length of the enriched output.
C3_UnparseableSkipped ==
    /\ pc = "failed" => ~input_file.exists
    /\ pc \in AfterEnhance =>
          RawOf(enhanced_incidents) = SelectSeq(unique_incidents, Parseable)
    /\ pc \in {"processed", "reported", "report_failed"} =>
          stats.total_enhanced = Len(enhanced_incidents)

\* a malformed Datetime between two well-formed ones: the run completes and
\* emits the two
C3_Witness ==
    /\ pc = "processed"
    /\ Len(unique_incidents) = 3
    /\ Parseable(unique_incidents[1])
    /\ ~Parseable(unique_incidents[2])
    /\ Parseable(unique_incidents[3])
    /\ stats.total_enhanced = 2

\* C5 (as claimed): the quality reporter, run on an enriched table without
\* records, completes and reports "no data".
C5_EmptyTableReported ==
    (pc \in {"reported", "report_failed"} /\ Len(output_file.rows) = 0) =>
        (pc = "reported" /\ report = "no data")

\* C6 (as claimed): after a crash while the enriched table is written, the
\* persisted table is still the complete table of the last successful run.
C6_CrashKeepsLastTable ==
    pc = "crashed" => output_file = last_complete

\* C7: when the input table is missing, the run fails before any processing
\* and the output table is as it was when the run started: not created, not
\* cut, not written.
C7_MissingInputLeavesOutput ==
    ~input_file.exists =>
        /\ pc \in {"idle", "start", "failed"}
        /\ output_file = output_at_start
        /\ incidents = << >>
        /\ unique_incidents = << >>
        /\ enhanced_incidents = << >>

\* the run has failed for a missing input and an earlier table is still there
C7_Witness ==
    /\ pc = "failed"
    /\ ~input_file.exists
    /\ output_file.exists
    /\ Len(output_file.rows) > 0

-----------------------------------------------------------------------------
(* Properties of parse_units_field (specification SpecUnits) *)

CountChar(s, c) == Cardinality({ i \in 1..Len(s) : s[i] = c })

\* C8: unit_count is the number of comma-separated tokens of the returned
\* units_list, one more than its commas, and so at least 1, also for the
\* empty units_list.
C8_UnitCountIsTokenCount ==
    fn_pc = "return" =>
        /\ units_data.unit_count = CountChar(units_data.units_list, ",") + 1
        /\ units_data.unit_count >= 1

\* "Units:" followed by blanks only: units_list is empty, unit_count is 1
C8_Witness ==
    /\ fn_pc = "return"
    /\ HasLit(units_str, 1, UnitsLit)
    /\ Len(units_str) > Len(UnitsLit)
    /\ units_data.units_list = << >>
    /\ units_data.unit_count = 1

AllSpace(s, i, j) == \A k \in i..j : IsSpace(s[k])
NoSpace(s, i, j) == \A k \in i..j : ~IsSpace(s[k])

\* the text from index i on
From(s, i) == SubSeq(s, i, Len(s))

\* s is "Radio:", whitespace or none, a token s[a..b-1] free of whitespace,
\* whitespace s[b..c-1], "Units:", and a rest
RadioShape(s, a, b, c) ==
    /\ HasLit(s, 1, RadioLit)
    /\ Len(RadioLit) < a /\ AllSpace(s, Len(RadioLit) + 1, a - 1)
    /\ a < b /\ NoSpace(s, a, b - 1)
    /\ b < c /\ AllSpace(s, b, c - 1)
    /\ HasLit(s, c, UnitsLit)

\* a rest the patterns accept: it holds a character that is no line feed
RestOk(rest) == \E k \in 1..Len(rest) : rest[k] /= "\n"

\* a rest as returned: leading whitespace dropped, cut at the first line
\* feed, trimmed
CleanRest(rest) ==
    LET body == From(rest, SkipSpace(rest, 1))
    IN  Strip(SubSeq(body, 1, FindChar(body, "\n", 1) - 1))

\* the texts of the first and the second rule, read literally:
\* "Radio: <token> Units: <rest>" and "Units: <rest>" with single blanks
LiteralRadio(s, b) ==
    /\ HasLit(s, 1, RadioLit \o << " " >>)
    /\ Len(RadioLit) + 1 < b
    /\ NoSpace(s, Len(RadioLit) + 2, b - 1)
    /\ HasLit(s, b, << " " >> \o UnitsLit \o << " " >>)

LiteralUnits(s) == HasLit(s, 1, UnitsLit \o << " " >>)

\* C9 (as claimed): "Radio: <token> Units: <rest>" yields the token and the
\* rest; otherwise "Units: <rest>" yields no channel and the rest; otherwise
\* no channel and units_list is the raw input.
C9_GrammarAsClaimed ==
    fn_pc = "return" =>
        IF \E b \in 1..Len(units_str) : LiteralRadio(units_str, b)
        THEN \A b \in 1..Len(units_str) : LiteralRadio(units_str, b) =>
                /\ units_data.radio_channel =
                      SubSeq(units_str, Len(RadioLit) + 2, b - 1)
                /\ units_data.units_list =
                      From(units_str, b + Len(UnitsLit) + 2)
        ELSE IF LiteralUnits(units_str)
        THEN /\ units_data.radio_channel = << >>
             /\ units_data.units_list = From(units_str, Len(UnitsLit) + 2)
        ELSE /\ units_data.radio_channel = << >>
             /\ units_data.units_list = units_str

\* s has the shape of the first rule with its token at s[a..b-1] and its
\* "Units:" at c, and the rest is one the pattern accepts
RadioForm(s, a, b, c) ==
    RadioShape(s, a, b, c) /\ RestOk(From(s, c + Len(UnitsLit)))

IsRadioForm(s) ==
    /\ HasLit(s, 1, RadioLit)
    /\ \E a \in (Len(RadioLit) + 1)..Len(s) :
          /\ AllSpace(s, Len(RadioLit) + 1, a - 1)
          /\ \E b \in (a + 1)..Len(s) :
                /\ NoSpace(s, a, b - 1)
                /\ \E c \in (b + 1)..Len(s) : RadioForm(s, a, b, c)

IsUnitsForm(s) ==
    HasLit(s, 1, UnitsLit) /\ RestOk(From(s, Len(UnitsLit) + 1))

\* C9 (amended): a text that starts with "Radio:", optional whitespace, a
\* token free of whitespace, whitespace, "Units:" and a rest that holds a
\* character other than a line feed yields radio_channel = token and
\* units_list = the rest without its leading whitespace, cut at its first
\* line feed and trimmed; otherwise a text that starts with "Units:" and
\* such a rest yields no channel and the same units_list; every other text
\* yields no channel and units_list = the raw text trimmed.
C9_Grammar ==
    fn_pc = "return" =>
        IF IsRadioForm(units_str)
        THEN \A a \in (Len(RadioLit) + 1)..Len(units_str) :
                AllSpace(units_str, Len(RadioLit) + 1, a - 1) =>
                \A b \in (a + 1)..Len(units_str) :
                    NoSpace(units_str, a, b - 1) =>
                    \A c \in (b + 1)..Len(units_str) :
                        RadioForm(units_str, a, b, c) =>
                            /\ units_data.radio_channel =
                                  SubSeq(units_str, a, b - 1)
                            /\ units_data.units_list =
                                  CleanRest(From(units_str, c + Len(UnitsLit)))
        ELSE IF IsUnitsForm(units_str)
        THEN /\ units_data.radio_channel = << >>
             /\ units_data.units_list =
                   CleanRest(From(units_str, Len(UnitsLit) + 1))
        ELSE /\ units_data.radio_channel = << >>
             /\ units_data.units_list = Strip(units_str)

\* the first rule has matched: "Radio:9 Units:E" gives channel 9, units E
C9_Witness ==
    /\ fn_pc = "return"
    /\ HasLit(units_str, 1, RadioLit)
    /\ units_data.radio_channel = << "9" >>
    /\ units_data.units_list = << "E" >>

-----------------------------------------------------------------------------
(* Properties of parse_location (specification SpecLocation) *)

LocationTypes == { "INTERSECTION", "BLOCK", "ADDRESS" }

\* C4 (as claimed): location_type is one of the three types and cross_street
\* is non-empty if and only if the type is INTERSECTION.
C4_CrossStreetIffIntersection ==
    fn_pc = "return" =>
        /\ location_data.location_type \in LocationTypes
        /\ (location_data.cross_street /= << >>)
              <=> (location_data.location_type = "INTERSECTION")

\* C4 (amended): location_type is one of the three types and cross_street is
\* non-empty only if the type is INTERSECTION.
C4_CrossStreetOnlyIfIntersection ==
    fn_pc = "return" =>
        /\ location_data.location_type \in LocationTypes
        /\ (location_data.cross_street /= << >>)
              => (location_data.location_type = "INTERSECTION")

\* an intersection with nothing after the slash: the cross street is empty
C4_Witness ==
    /\ fn_pc = "return"
    /\ location_data.location_type = "INTERSECTION"
    /\ location_data.street_address /= << >>
    /\ location_data.cross_street = << >>

\* ','.join(segs) without the segment at index k
RECURSIVE JoinWithout(_, _, _)
JoinWithout(segs, k, i) ==
    IF i > Len(segs) THEN << >>
    ELSE IF i = k THEN JoinWithout(segs, k, i + 1)
    ELSE LET later == { j \in (i + 1)..Len(segs) : j /= k }
         IN  IF later = {} THEN segs[i]
             ELSE segs[i] \o << "," >> \o JoinWithout(segs, k, i + 1)

\* a comma-delimited segment of the form  Apt/Unit:<value>
IsAptSegment(seg) ==
    LET a == SkipSpace(seg, 1)
    IN  HasLit(seg, a, AptLit) /\ a + Len(AptLit) <= Len(seg)

AptValue(seg) == Strip(SubSeq(seg, SkipSpace(seg, 1) + Len(AptLit), Len(seg)))

\* the parse of s extracts the segment at index k of segs and is otherwise
\* the parse of the string without that segment
AptSegmentExtracted(data, segs, k) ==
    LET rest == parse_location(JoinWithout(segs, k, 1))
    IN  /\ data.apartment_unit = AptValue(segs[k])
        /\ data.location_type = rest.location_type
        /\ data.street_address = rest.street_address
        /\ data.cross_street = rest.cross_street
        /\ data.building_name = rest.building_name

OnlyAptSegment(segs, k) ==
    /\ IsAptSegment(segs[k])
    /\ \A j \in 1..Len(segs) : j /= k => ~IsAptSegment(segs[j])

\* C12: when the location string holds one Apt/Unit:<value> segment, at any
\* position among its comma-delimited segments (the first included),
\* apartment_unit is the trimmed value and location_type, street_address,
\* cross_street and building_name are those of the string without the segment.
C12_AptSegmentExtractedAnywhere ==
    fn_pc = "return" =>
        LET segs == Split(location_str, ",")
        IN  \A k \in 1..Len(segs) :
                OnlyAptSegment(segs, k)
                    => AptSegmentExtracted(location_data, segs, k)

\* the same for a segment that follows a comma, which is what the pattern
\* of the source matches
C12_AptSegmentExtractedAfterComma ==
    fn_pc = "return" =>
        LET segs == Split(location_str, ",")
        IN  \A k \in 2..Len(segs) :
                OnlyAptSegment(segs, k)
                    => AptSegmentExtracted(location_data, segs, k)

\* a later segment is extracted and leaves the other fields alone
C12_WitnessAfterComma ==
    /\ fn_pc = "return"
    /\ location_data.apartment_unit /= << >>
    /\ location_data.street_address /= << >>
    /\ LET segs == Split(location_str, ",")
       IN  Len(segs) > 1 /\ OnlyAptSegment(segs, 2)


-----------------------------------------------------------------------------
(* Properties of get_temporal_fields (specification SpecTemporal) *)

\* Zeller's congruence: 0 = Saturday, 1 = Sunday, 2 = Monday, ...
Zeller(y, m, d) ==
    LET mm == IF m < 3 THEN m + 12 ELSE m
        yy == IF m < 3 THEN y - 1 ELSE y
        k == yy % 100
        j == yy \div 100
    IN  (d + ((13 * (mm + 1)) \div 5) + k + (k \div 4) + (j \div 4) + 5 * j) % 7

\* C10: hours 6..11 are Morning, 12..16 Afternoon, 17..20 Evening, all
\* others Night; December to February is Winter, March to May Spring, June
\* to August Summer, September to November Fall; is_weekend is Yes exactly
\* on Saturdays and Sundays.
C10_TemporalBuckets ==
    fn_pc = "return" =>
        LET hour == datetime_obj.hour
            month == datetime_obj.month
            weekend == Zeller(datetime_obj.year, month, datetime_obj.day) \in {0, 1}
        IN  /\ temporal_data.time_period =
                 (CASE hour \in 6..11  -> "Morning"
                    [] hour \in 12..16 -> "Afternoon"
                    [] hour \in 17..20 -> "Evening"
                    [] OTHER           -> "Night")
            /\ temporal_data.season =
                 (CASE month \in {12, 1, 2}  -> "Winter"
                    [] month \in {3, 4, 5}   -> "Spring"
                    [] month \in {6, 7, 8}   -> "Summer"
                    [] month \in {9, 10, 11} -> "Fall")
            /\ temporal_data.is_weekend = (IF weekend THEN "Yes" ELSE "No")
            /\ (temporal_data.is_weekend = "Yes")
                  <=> (temporal_data.day_of_week \in {"Saturday", "Sunday"})

\* noon on a Sunday in December: Afternoon, Winter, weekend
C10_Witness ==
    /\ fn_pc = "return"
    /\ datetime_obj.hour = 12
    /\ temporal_data.time_period = "Afternoon"
    /\ temporal_data.season = "Winter"
    /\ temporal_data.day_of_week = "Sunday"
    /\ temporal_data.is_weekend = "Yes"

-----------------------------------------------------------------------------
(* Properties of the collector (specification SpecCollector) *)

IsPrefix(a, b) == Len(a) <= Len(b) /\ SubSeq(b, 1, Len(a)) = a

\* what the file holds is kept, at its place, in the other file
KeptIn(before, after) ==
    /\ before.exists => after.exists
    /\ before.header => after.header
    /\ IsPrefix(before.rows, after.rows)

\* C11: no step of a collector run rewrites, removes or reorders a row that
\* incidents.csv holds, and the table a run started from is always a prefix
\* of the table as it is during and after the run.
C11_TableOnlyGrows ==
    /\ [](KeptIn(csv_at_start, incidents_csv))
    /\ [][KeptIn(incidents_csv, incidents_csv')]_vars

\* a run over a table that held a row has ended with more rows in it
C11_Witness ==
    /\ col_pc = "done"
    /\ csv_at_start.rows /= << >>
    /\ Len(incidents_csv.rows) > Len(csv_at_start.rows)
    /\ appended /= << >>

\* m is the greatest Datetime of the rows, None if there is no row
IsMaxOf(m, rows) ==
    IF rows = << >> THEN m = None
    ELSE /\ \E i \in 1..Len(rows) : strptime(rows[i].Datetime) = m
         /\ \A i \in 1..Len(rows) :
                ~DatetimeGreater(strptime(rows[i].Datetime), m)

\* C14: every row a collector run has appended has a Datetime strictly
\* greater than the Datetime of every row the table held when the run
\* started, and the threshold the run compares with stays the maximum of
\* the table at the start for the whole run.
C14_AppendedAfterStartMaximum ==
    /\ \A k \in 1..Len(appended) :
           \A i \in 1..Len(csv_at_start.rows) :
               DatetimeGreater(strptime(appended[k].Datetime),
                               strptime(csv_at_start.rows[i].Datetime))
    /\ col_pc \in {"read", "fetched", "opened", "loop", "done"}
           => IsMaxOf(max_datetime, csv_at_start.rows)

\* a finished run over a table with a row: the page held an incident of the
\* instant of the threshold, which was not appended, and the run appended
\* two rows with the same Datetime, Event and Location
C14_Witness ==
    /\ col_pc = "done"
    /\ csv_at_start.rows /= << >>
    /\ \E i \in 1..Len(incident_texts) :
           LET h == HandleText(incident_texts[i], None)
           IN  /\ h.write
               /\ strptime(h.row.Datetime) = max_datetime
               /\ \A k \in 1..Len(appended) : appended[k] /= h.row
    /\ \E j, k \in 1..Len(appended) :
           /\ j < k
           /\ DedupKey(appended[j]) = DedupKey(appended[k])

-----------------------------------------------------------------------------
(* Properties of repeated runs (specification SpecGrowth) *)

\* C13: when the input of the earlier of two successive runs of
\* process_incidents is a prefix of the input of the later run, the
\* enriched table of the earlier run is a prefix of that of the later run
\* and duplicates_removed of the later run is not less.
C13_GrowthKeepsEarlierOutput ==
    (earlier_run.ran /\ later_run.ran
        /\ IsPrefix(earlier_run.input, later_run.input))
    => /\ IsPrefix(earlier_run.output, later_run.output)
       /\ earlier_run.stats.duplicates_removed
              <= later_run.stats.duplicates_removed

\* two runs with rows appended in between: the later table holds the earlier
\* one and more, and more duplicates were removed
C13_Witness ==
    /\ earlier_run.ran
    /\ later_run.ran
    /\ Len(earlier_run.input) < Len(later_run.input)
    /\ IsPrefix(earlier_run.input, later_run.input)
    /\ earlier_run.output /= << >>
    /\ Len(earlier_run.output) < Len(later_run.output)
    /\ earlier_run.stats.duplicates_removed
           < later_run.stats.duplicates_removed

=============================================================================
